---- MODULE Spec2Model ----
(***************************************************************************)
(* A model of jellyzset (src/jellyzset.go, lines 1-1166): a store of       *)
(* sorted sets, each a member directory plus a ranked skip list.           *)
(*                                                                         *)
(* Go pointers are node ids into `heap`; Nil is the nil pointer.  Go level *)
(* indexes are kept (level 0 is the bottom level).  Scores are integers    *)
(* standing for float64 values (no NaN); spans and ranks are uint64 in the *)
(* source and plain integers here, so a negative value stands for a        *)
(* wrapped-around one.                                                     *)
(***************************************************************************)
EXTENDS Integers, Sequences, FiniteSets, TLC

\* ------------------------------------------------------------------ bounds
MaxHeight == 2      \* heights drawn by getRandomLevel are 1..MaxHeight
MaxScore == 1       \* scores are -1..MaxScore

\* --------------------------------------------------------------- constants
SkipListMaxLvl == 32

Nil == 0
Keys == {"k1"}
\* the keys of the specification that tells two sorted sets apart
TwoKeys == {"k1", "k2"}
Members == {"", "a", "b"}
Values == {"v1", "v2"}
Scores == (0 - 1)..MaxScore
Heights == 1..MaxHeight
LevelIdx == 0..(SkipListMaxLvl - 1)
\* the indexes and ranks handed to the queries by position reach past the
\* largest set on either side
IdxArgs == (0 - Cardinality(Members) - 1)..(Cardinality(Members) + 1)
\* the bounds handed to the queries by score reach past the scores on either side
RangeBounds == (0 - 2)..(MaxScore + 1)
\* the configurations handed to ZRangeByScore; isNil marks the nil *ZRangeConfig
RangeConfigs ==
  {[isNil |-> TRUE, Limit |-> 0, ExcludeStart |-> FALSE, ExcludeEnd |-> FALSE]}
    \cup [isNil : {FALSE}, Limit : {0, 1, 2}, ExcludeStart : BOOLEAN, ExcludeEnd : BOOLEAN]

VARIABLES
  records,  \* ZSet.records: key -> [records: member -> node id, zsl: skip list]
  heap,     \* the zslNode objects: node id -> zslNode
  added,    \* history: key -> (member -> score of its latest ZAdd), members not since removed
  ret       \* the last mutating call and what it returned

vars == <<records, heap, added, ret>>

\* -------------------------------------------------------------- utilities
EmptyMap == [x \in {} |-> Nil]

MapPut(f, k, v) == [x \in (DOMAIN f) \cup {k} |-> IF x = k THEN v ELSE f[x]]

MapDel(f, k) == [x \in (DOMAIN f) \ {k} |-> f[x]]

\* Go's string comparison (bytewise lexicographic) on the members of the model
MemberOrd(m) == CASE m = "" -> 0 [] m = "a" -> 1 [] m = "b" -> 2 [] OTHER -> 3

MemberLess(a, b) == MemberOrd(a) < MemberOrd(b)

\* Addresses are opaque to the program; the allocator of the model hands out
\* the lowest unused address of the block reserved for the object: one
\* address for the head sentinel of a key, two for the nodes that carry a
\* given member with a given score in a key (a freed address is used again).
KeyOrd(k) == CASE k = "k1" -> 0 [] OTHER -> 1

ScoreOrd(s) == s + 1

BlockBase(key) == KeyOrd(key) * (1 + 2 * Cardinality(Members) * Cardinality(Scores))

HeadSlots(key) == {BlockBase(key) + 1}

NodeSlots(key, member, score) ==
  LET first == BlockBase(key) + 2
                 + 2 * (MemberOrd(member) * Cardinality(Scores) + ScoreOrd(score))
  IN  {first, first + 1}

Alloc(h, slots) == CHOOSE i \in slots \ DOMAIN h : \A j \in slots \ DOMAIN h : i <= j

\* node ids a node refers to
Refs(n) == ({n.backwards} \cup {n.level[i].forward : i \in DOMAIN n.level}) \ {Nil}

RECURSIVE Closure(_, _)
Closure(h, S) ==
  LET N == S \cup UNION {Refs(h[x]) : x \in S}
  IN  IF N = S THEN S ELSE Closure(h, N)

\* what the store references
Roots(recs) ==
  UNION {({recs[k].zsl.head, recs[k].zsl.tail} \cup {recs[k].records[m] : m \in DOMAIN recs[k].records}) \ {Nil}
         : k \in DOMAIN recs}

\* Go's garbage collector: objects the store no longer reaches are gone
Collect(h, recs) == LET live == Closure(h, Roots(recs)) IN [x \in live |-> h[x]]

\* ------------------------------------------------------------ constructors
createNode(level, score, member, value) ==
  [member |-> member, value |-> value, score |-> score, backwards |-> Nil,
   level |-> [i \in 0..(level - 1) |-> [forward |-> Nil, span |-> 0]]]

\* the skip list whose head sentinel was allocated at address hid
newZSkipList(hid) == [head |-> hid, tail |-> hid, length |-> 0, level |-> 1]

\* ------------------------------------------------------- zskiplist.insert
\* an insert descent that compares scores only, without the member tie-break
RECURSIVE insertAdvanceScoreOnly(_, _, _, _, _, _)
insertAdvanceScoreOnly(h, cur, level, score, member, rank) ==
  LET f == h[cur].level[level].forward
  IN  IF f # Nil /\ h[f].score < score
      THEN insertAdvanceScoreOnly(h, f, level, score, member, rank + h[cur].level[level].span)
      ELSE [node |-> cur, rank |-> rank]

RECURSIVE insertAdvance(_, _, _, _, _, _)
insertAdvance(h, cur, level, score, member, rank) ==
  LET f == h[cur].level[level].forward
  IN  IF f # Nil /\ (h[f].score < score \/ (h[f].score = score /\ MemberLess(h[f].member, member)))
      THEN insertAdvance(h, f, level, score, member, rank + h[cur].level[level].span)
      ELSE [node |-> cur, rank |-> rank]

RECURSIVE insertDescend(_, _, _, _, _, _, _, _)
insertDescend(h, zl, level, cur, score, member, upd, rnk) ==
  IF level < 0 THEN [updateNodes |-> upd, rankValues |-> rnk]
  ELSE LET r0 == IF level = zl.level - 1 THEN 0 ELSE rnk[level + 1]
           a == insertAdvance(h, cur, level, score, member, r0)
       IN  insertDescend(h, zl, level - 1, a.node, score, member,
                         [upd EXCEPT ![level] = a.node], [rnk EXCEPT ![level] = a.rank])

\* an insert that links the new node into the bottom level only
RECURSIVE insertLinkBottomOnly(_, _, _, _, _, _)
insertLinkBottomOnly(h, level, newNodeLevel, id, upd, rnk) ==
  IF level >= 1 THEN h
  ELSE LET u == upd[level]
           d == rnk[0] - rnk[level]
           h1 == [h EXCEPT ![id].level[level].forward = h[u].level[level].forward]
           h2 == [h1 EXCEPT ![u].level[level].forward = id]
           h3 == [h2 EXCEPT ![id].level[level].span = h2[u].level[level].span - d]
           h4 == [h3 EXCEPT ![u].level[level].span = d + 1]
       IN  insertLinkBottomOnly(h4, level + 1, newNodeLevel, id, upd, rnk)

RECURSIVE insertLink(_, _, _, _, _, _)
insertLink(h, level, newNodeLevel, id, upd, rnk) ==
  IF level >= newNodeLevel THEN h
  ELSE LET u == upd[level]
           d == rnk[0] - rnk[level]
           h1 == [h EXCEPT ![id].level[level].forward = h[u].level[level].forward]
           h2 == [h1 EXCEPT ![u].level[level].forward = id]
           h3 == [h2 EXCEPT ![id].level[level].span = h2[u].level[level].span - d]
           h4 == [h3 EXCEPT ![u].level[level].span = d + 1]
       IN  insertLink(h4, level + 1, newNodeLevel, id, upd, rnk)

\* an insert that leaves the spans of the levels above the new node as they were
insertBumpNone(h, level, top, upd) == h

RECURSIVE insertBump(_, _, _, _)
insertBump(h, level, top, upd) ==
  IF level >= top THEN h
  ELSE insertBump([h EXCEPT ![upd[level]].level[level].span = @ + 1], level + 1, top, upd)

\* insert with the height newNodeLevel drawn by getRandomLevel and the new
\* node allocated at address id
insert(h, zl, score, member, value, newNodeLevel, id) ==
  LET s == insertDescend(h, zl, zl.level - 1, zl.head, score, member,
                         [i \in LevelIdx |-> Nil], [i \in LevelIdx |-> 0])
      raised == {i \in LevelIdx : i >= zl.level /\ i < newNodeLevel}
      rnk == [i \in LevelIdx |-> IF i \in raised THEN 0 ELSE s.rankValues[i]]
      upd == [i \in LevelIdx |-> IF i \in raised THEN zl.head ELSE s.updateNodes[i]]
      h1 == [h EXCEPT ![zl.head].level =
               [i \in DOMAIN @ |-> IF i \in raised THEN [@[i] EXCEPT !.span = zl.length] ELSE @[i]]]
      lvl == IF newNodeLevel > zl.level THEN newNodeLevel ELSE zl.level
      h2 == h1 @@ (id :> createNode(newNodeLevel, score, member, value))
      h3 == insertLink(h2, 0, newNodeLevel, id, upd, rnk)
      h4 == insertBump(h3, newNodeLevel, lvl, upd)
      h5 == [h4 EXCEPT ![id].backwards = IF upd[0] = zl.head THEN Nil ELSE upd[0]]
      nxt == h5[id].level[0].forward
      h6 == IF nxt # Nil THEN [h5 EXCEPT ![nxt].backwards = id] ELSE h5
      tl == IF nxt # Nil THEN zl.tail ELSE id
  IN  [heap |-> h6,
       zsl |-> [head |-> zl.head, tail |-> tl, length |-> zl.length + 1, level |-> lvl],
       node |-> id]

\* ------------------------------------------------------ zskiplist.getRank
RECURSIVE getRankAdvance(_, _, _, _, _, _)
getRankAdvance(h, cur, level, score, member, rank) ==
  LET nextNode == h[cur].level[level].forward
  IN  IF nextNode # Nil
         /\ (h[nextNode].score < score
             \/ (h[nextNode].score = score /\ MemberLess(h[nextNode].member, member)))
      THEN getRankAdvance(h, nextNode, level, score, member, rank + h[cur].level[level].span)
      ELSE [node |-> cur, rank |-> rank]

RECURSIVE getRankDescend(_, _, _, _, _, _)
getRankDescend(h, cur, level, score, member, rank) ==
  IF level < 0 THEN rank
  ELSE LET a == getRankAdvance(h, cur, level, score, member, rank)
       IN  IF h[a.node].member = member THEN a.rank
           ELSE getRankDescend(h, a.node, level - 1, score, member, a.rank)

getRank(h, zl, score, member) == getRankDescend(h, zl.head, zl.level - 1, score, member, 0)

\* --------------------------------------- zskiplist.delete and deleteNode
\* a deleteNode that leaves the span of a level that passes over the node as it was
RECURSIVE deleteNodeUnlinkKeepsSpan(_, _, _, _, _)
deleteNodeUnlinkKeepsSpan(h, level, top, nodeToDelete, updates) ==
  IF level >= top THEN h
  ELSE LET u == updates[level]
           h1 == IF h[u].level[level].forward = nodeToDelete
                 THEN LET g == [h EXCEPT ![u].level[level].span = @ + h[nodeToDelete].level[level].span - 1]
                      IN  [g EXCEPT ![u].level[level].forward = h[nodeToDelete].level[level].forward]
                 ELSE h
       IN  deleteNodeUnlinkKeepsSpan(h1, level + 1, top, nodeToDelete, updates)

RECURSIVE deleteNodeUnlink(_, _, _, _, _)
deleteNodeUnlink(h, level, top, nodeToDelete, updates) ==
  IF level >= top THEN h
  ELSE LET u == updates[level]
           h1 == IF h[u].level[level].forward = nodeToDelete
                 THEN LET g == [h EXCEPT ![u].level[level].span = @ + h[nodeToDelete].level[level].span - 1]
                      IN  [g EXCEPT ![u].level[level].forward = h[nodeToDelete].level[level].forward]
                 ELSE [h EXCEPT ![u].level[level].span = @ - 1]
       IN  deleteNodeUnlink(h1, level + 1, top, nodeToDelete, updates)

\* a deleteNode that never lowers the level of the list
deleteNodeShrinkNever(h, head, level) == level

RECURSIVE deleteNodeShrink(_, _, _)
deleteNodeShrink(h, head, level) ==
  IF level > 1 /\ h[head].level[level - 1].forward = Nil
  THEN deleteNodeShrink(h, head, level - 1)
  ELSE level

\* a deleteNode that leaves the backward link of the successor as it was
deleteNodeKeepsBackwards(h, zl, nodeToDelete, updates) ==
  LET h1 == deleteNodeUnlink(h, 0, zl.level, nodeToDelete, updates)
      nxt == h1[nodeToDelete].level[0].forward
      tl == IF nxt # Nil THEN zl.tail ELSE h1[nodeToDelete].backwards
  IN  [heap |-> h1,
       zsl |-> [head |-> zl.head, tail |-> tl, length |-> zl.length - 1,
                level |-> deleteNodeShrink(h1, zl.head, zl.level)]]

deleteNode(h, zl, nodeToDelete, updates) ==
  LET h1 == deleteNodeUnlink(h, 0, zl.level, nodeToDelete, updates)
      nxt == h1[nodeToDelete].level[0].forward
      h2 == IF nxt # Nil THEN [h1 EXCEPT ![nxt].backwards = h1[nodeToDelete].backwards] ELSE h1
      tl == IF nxt # Nil THEN zl.tail ELSE h1[nodeToDelete].backwards
  IN  [heap |-> h2,
       zsl |-> [head |-> zl.head, tail |-> tl, length |-> zl.length - 1,
                level |-> deleteNodeShrink(h2, zl.head, zl.level)]]

RECURSIVE deleteAdvance(_, _, _, _, _)
deleteAdvance(h, cur, level, score, member) ==
  LET nextNode == h[cur].level[level].forward
  IN  IF nextNode # Nil
         /\ (h[nextNode].score < score
             \/ (h[nextNode].score = score /\ MemberLess(h[nextNode].member, member)))
      THEN deleteAdvance(h, nextNode, level, score, member)
      ELSE cur

RECURSIVE deleteDescend(_, _, _, _, _, _)
deleteDescend(h, cur, level, score, member, updates) ==
  IF level < 0 THEN [node |-> cur, updates |-> updates]
  ELSE LET c == deleteAdvance(h, cur, level, score, member)
       IN  deleteDescend(h, c, level - 1, score, member, [updates EXCEPT ![level] = c])

delete(h, zl, score, member) ==
  LET s == deleteDescend(h, zl.head, zl.level - 1, score, member, [i \in LevelIdx |-> Nil])
      currentNode == h[s.node].level[0].forward
  IN  IF currentNode # Nil /\ h[currentNode].score = score /\ h[currentNode].member = member
      THEN deleteNode(h, zl, currentNode, s.updates)
      ELSE [heap |-> h, zsl |-> zl]

\* --------------------------------------------------------------- queries
\* uint64 comparison a > b, a negative number standing for a wrapped value
U64Gt(a, b) == IF a < 0 THEN (b >= 0 \/ a > b) ELSE (b >= 0 /\ a > b)

\* The queries read the store (recs, h) they are given; ZScore, ZCard, ZRank,
\* ZRevRank, ZRange and ZRevRange below are the calls on the current store.

\* ZSet.ZScore: <<ok, score>>
ZScoreAt(recs, h, key, member) ==
  IF key \notin DOMAIN recs THEN <<FALSE, 0>>
  ELSE IF member \notin DOMAIN recs[key].records THEN <<FALSE, 0>>
  ELSE <<TRUE, h[recs[key].records[member]].score>>

\* ZSet.ZCard
ZCardAt(recs, key) ==
  IF key \notin DOMAIN recs THEN 0 ELSE Cardinality(DOMAIN recs[key].records)

\* a ZRank that answers 0, getRank's "not found", for a member the key does not hold
ZRankAtZeroWhenMissing(recs, h, key, member) ==
  IF key \notin DOMAIN recs THEN 0 - 1
  ELSE IF member \notin DOMAIN recs[key].records THEN 0
  ELSE getRank(h, recs[key].zsl, h[recs[key].records[member]].score, member)

\* ZSet.ZRank
ZRankAt(recs, h, key, member) ==
  IF key \notin DOMAIN recs THEN 0 - 1
  ELSE IF member \notin DOMAIN recs[key].records THEN 0 - 1
  ELSE getRank(h, recs[key].zsl, h[recs[key].records[member]].score, member)

\* a reverse rank that forgets the final "- 1"
ZRevRankOffByOne(recs, h, key, member) ==
  IF key \notin DOMAIN recs THEN 0 - 1
  ELSE IF member \notin DOMAIN recs[key].records THEN 0 - 1
  ELSE recs[key].zsl.length
         - getRank(h, recs[key].zsl, h[recs[key].records[member]].score, member)

\* ZSet.ZRevRank
ZRevRankAt(recs, h, key, member) ==
  IF key \notin DOMAIN recs THEN 0 - 1
  ELSE IF member \notin DOMAIN recs[key].records THEN 0 - 1
  ELSE recs[key].zsl.length
         - getRank(h, recs[key].zsl, h[recs[key].records[member]].score, member) - 1

currentNodeHasForward(h, node, level) == h[node].level[level].forward # Nil

\* zskiplist.getNodeByRank
RECURSIVE getNodeByRankAdvance(_, _, _, _, _)
getNodeByRankAdvance(h, cur, level, rank, traversed) ==
  IF currentNodeHasForward(h, cur, level) /\ traversed + h[cur].level[level].span <= rank
  THEN getNodeByRankAdvance(h, h[cur].level[level].forward, level, rank,
                            traversed + h[cur].level[level].span)
  ELSE [node |-> cur, traversed |-> traversed]

RECURSIVE getNodeByRankDescend(_, _, _, _, _)
getNodeByRankDescend(h, cur, level, rank, traversed) ==
  IF level < 0 THEN Nil
  ELSE LET a == getNodeByRankAdvance(h, cur, level, rank, traversed)
       IN  IF a.traversed = rank THEN a.node
           ELSE getNodeByRankDescend(h, a.node, level - 1, rank, a.traversed)

getNodeByRank(h, zl, rank) ==
  IF rank = 0 \/ U64Gt(rank, zl.length) THEN Nil
  ELSE getNodeByRankDescend(h, zl.head, zl.level - 1, rank, 0)

\* an adjustRange that clamps a negative index without adding the length
adjustRangeNoWrap(value, length) == IF value < 0 THEN 0 ELSE value

adjustRange(value, length) ==
  IF value < 0
  THEN (IF value + length < 0 THEN 0 ELSE value + length)
  ELSE value

\* a getStartNode that forgets that ranks in the skip list are 1-based
getStartNodeZeroBased(h, zl, rank, reverse) ==
  getNodeByRank(h, zl, IF reverse THEN zl.length - rank ELSE rank)

getStartNode(h, zl, rank, reverse) ==
  getNodeByRank(h, zl, IF reverse THEN zl.length - rank ELSE rank + 1)

\* a getNextNode that walks forward whatever the direction asked for
getNextNodeForwardOnly(h, currentNode, reverse) == h[currentNode].level[0].forward

getNextNode(h, currentNode, reverse) ==
  IF reverse THEN h[currentNode].backwards ELSE h[currentNode].level[0].forward

RECURSIVE findRangeWalk(_, _, _, _, _, _)
findRangeWalk(h, node, span, reverse, withScores, result) ==
  IF span > 0 /\ node # Nil
  THEN findRangeWalk(h, getNextNode(h, node, reverse), span - 1, reverse, withScores,
                     IF withScores THEN result \o <<h[node].member, h[node].score>>
                     ELSE Append(result, h[node].member))
  ELSE result

\* zset.findRange
findRange(h, set, start, stop, reverse, withScores) ==
  LET length == set.zsl.length
      start1 == adjustRange(start, length)
      stop1 == adjustRange(stop, length)
  IN  IF start1 > stop1 THEN <<>>
      ELSE findRangeWalk(h, getStartNode(h, set.zsl, start1, reverse), stop1 - start1 + 1,
                         reverse, withScores, <<>>)

\* ZSet.ZRange
ZRangeAt(recs, h, key, start, stop) ==
  IF key \notin DOMAIN recs THEN <<>>
  ELSE findRange(h, recs[key], start, stop, FALSE, FALSE)

\* ZSet.ZRevRange
ZRevRangeAt(recs, h, key, start, stop) ==
  IF key \notin DOMAIN recs \/ start > stop THEN <<>>
  ELSE findRange(h, recs[key], start, stop, TRUE, FALSE)

\* ZSet.ZRangeWithScore
ZRangeWithScoreAt(recs, h, key, start, stop) ==
  IF ~(key \in DOMAIN recs) \/ start > stop THEN <<>>
  ELSE findRange(h, recs[key], start, stop, FALSE, TRUE)

\* ZSet.ZRevRangeWithScore; the nil it returns for an absent key or for
\* start > stop is the slice without elements
ZRevRangeWithScoreAt(recs, h, key, start, stop) ==
  IF ~(key \in DOMAIN recs) \/ start > stop THEN <<>>
  ELSE findRange(h, recs[key], start, stop, TRUE, TRUE)

\* ------------------------------------------------- queries by score range
\* what a call that dereferences a nil pointer yields: a run-time panic
Panic == <<"panic">>

\* ZSet.limitScores; the set has no first node or no tail when it is empty,
\* and reading the score of either is a nil dereference
limitScores(h, item, min, max) ==
  LET first == h[item.head].level[0].forward
  IN  IF first = Nil \/ item.tail = Nil
      THEN [panic |-> TRUE, min |-> min, max |-> max]
      ELSE [panic |-> FALSE,
            min |-> IF min < h[first].score THEN h[first].score ELSE min,
            max |-> IF max > h[item.tail].score THEN h[item.tail].score ELSE max]

\* the descent of collectElementsInRange: the last node whose score is below min
RECURSIVE seekBelow(_, _, _, _)
seekBelow(h, cur, level, min) ==
  IF level < 0 THEN cur
  ELSE LET f == h[cur].level[level].forward
       IN  IF f # Nil /\ h[f].score < min
           THEN seekBelow(h, f, level, min)
           ELSE seekBelow(h, cur, level - 1, min)

\* the forward walk of collectElementsInRange
RECURSIVE walkUpTo(_, _, _, _)
walkUpTo(h, node, max, result) ==
  IF node # Nil /\ h[node].score <= max
  THEN walkUpTo(h, h[node].level[0].forward, max, result \o <<h[node].member, h[node].score>>)
  ELSE result

\* a forward walk that stops before the scores equal to max
RECURSIVE walkBelow(_, _, _, _)
walkBelow(h, node, max, result) ==
  IF node # Nil /\ h[node].score < max
  THEN walkBelow(h, h[node].level[0].forward, max, result \o <<h[node].member, h[node].score>>)
  ELSE result

\* a collectElementsInRange that leaves out the members scored exactly max
collectElementsInRangeBelowMax(h, item, min, max) ==
  walkBelow(h, h[seekBelow(h, item.head, item.level - 1, min)].level[0].forward, max, <<>>)

\* a collectElementsInRange that starts its walk at the node the descent
\* stopped at, without the step forward
collectElementsInRangeNoStep(h, item, min, max) ==
  walkUpTo(h, seekBelow(h, item.head, item.level - 1, min), max, <<>>)

\* ZSet.collectElementsInRange
collectElementsInRange(h, item, min, max) ==
  walkUpTo(h, h[seekBelow(h, item.head, item.level - 1, min)].level[0].forward, max, <<>>)

\* the descent of collectElementsInReverseRange: the last node whose score is
\* at most max, the head when there is none
RECURSIVE seekAtMost(_, _, _, _)
seekAtMost(h, cur, level, max) ==
  IF level < 0 THEN cur
  ELSE LET f == h[cur].level[level].forward
       IN  IF f # Nil /\ h[f].score <= max
           THEN seekAtMost(h, f, level, max)
           ELSE seekAtMost(h, cur, level - 1, max)

\* the backward walk of collectElementsInReverseRange
RECURSIVE walkDownTo(_, _, _, _)
walkDownTo(h, node, min, result) ==
  IF node # Nil /\ h[node].score >= min
  THEN walkDownTo(h, h[node].backwards, min, result \o <<h[node].member, h[node].score>>)
  ELSE result

\* ZSet.collectElementsInReverseRange
collectElementsInReverseRange(h, item, max, min) ==
  walkDownTo(h, seekAtMost(h, item.head, item.level - 1, max), min, <<>>)

\* ZSet.ZScoreRange: the interleaved members and scores, or Panic
ZScoreRangeAt(recs, h, key, min, max) ==
  IF key \notin DOMAIN recs \/ min > max THEN <<>>
  ELSE LET item == recs[key].zsl
           l == limitScores(h, item, min, max)
       IN  IF l.panic THEN Panic ELSE collectElementsInRange(h, item, l.min, l.max)

\* a ZRevScoreRange without the test min > max
ZRevScoreRangeAtNoOrderTest(recs, h, key, max, min) ==
  IF key \notin DOMAIN recs THEN <<>>
  ELSE LET item == recs[key].zsl
           l == limitScores(h, item, min, max)
       IN  IF l.panic THEN Panic ELSE collectElementsInReverseRange(h, item, l.max, l.min)

\* ZSet.ZRevScoreRange
ZRevScoreRangeAt(recs, h, key, max, min) ==
  IF key \notin DOMAIN recs \/ min > max THEN <<>>
  ELSE LET item == recs[key].zsl
           l == limitScores(h, item, min, max)
       IN  IF l.panic THEN Panic ELSE collectElementsInReverseRange(h, item, l.max, l.min)

\* ZSet.ZKeyExists
ZKeyExistsAt(recs, key) == key \in DOMAIN recs

\* ZSet.ZRangeByScore: the nodes returned, or Panic.  The call returns the
\* empty result as soon as the key exists; for a key that does not exist
\* z.records[key] is the nil *zset and reading its zsl field is a nil
\* dereference, so no call gets past that line, whatever config holds.
ZRangeByScoreAt(recs, h, key, start, end, config) ==
  IF ZKeyExistsAt(recs, key) THEN <<>> ELSE Panic

\* the score zset.getNodeByRank returns with the member "" when it has no node
\* to return; it stands for math.MinInt64, a score below every score
MinInt64 == 0 - 2147483647

\* zset.getNodeByRank: <<member, score>>
zsetGetNodeByRank(h, set, rank, reverse) ==
  IF rank < 0 \/ rank > set.zsl.length THEN <<"", MinInt64>>
  ELSE LET n == getNodeByRank(h, set.zsl,
                              IF reverse THEN set.zsl.length - rank ELSE rank + 1)
       IN  IF n = Nil THEN <<"", MinInt64>>
           ELSE IF h[n].member \notin DOMAIN set.records THEN <<"", MinInt64>>
           ELSE LET node == set.records[h[n].member]
                IN  <<h[node].member, h[node].score>>

\* ZSet.ZRetrieveByRank
ZRetrieveByRankAt(recs, h, key, rank) ==
  IF key \notin DOMAIN recs THEN <<>>
  ELSE zsetGetNodeByRank(h, recs[key], rank, FALSE)

\* ZSet.ZRevRetrieveByRank
ZRevRetrieveByRankAt(recs, h, key, rank) ==
  IF key \notin DOMAIN recs THEN <<>>
  ELSE zsetGetNodeByRank(h, recs[key], rank, TRUE)

\* ZSet.ZKeys: the listings the call can return, the order in which Go ranges
\* over a map being left open
ZKeysAt(recs) ==
  {ks \in [1..Cardinality(DOMAIN recs) -> DOMAIN recs] :
     \A i, j \in DOMAIN ks : i # j => ks[i] # ks[j]}

ZScore(key, member) == ZScoreAt(records, heap, key, member)

ZCard(key) == ZCardAt(records, key)

ZRank(key, member) == ZRankAt(records, heap, key, member)

ZRevRank(key, member) == ZRevRankAt(records, heap, key, member)

ZRange(key, start, stop) == ZRangeAt(records, heap, key, start, stop)

ZRevRange(key, start, stop) == ZRevRangeAt(records, heap, key, start, stop)

ZRangeWithScore(key, start, stop) == ZRangeWithScoreAt(records, heap, key, start, stop)

ZRevRangeWithScore(key, start, stop) == ZRevRangeWithScoreAt(records, heap, key, start, stop)

ZRetrieveByRank(key, rank) == ZRetrieveByRankAt(records, heap, key, rank)

ZRevRetrieveByRank(key, rank) == ZRevRetrieveByRankAt(records, heap, key, rank)

ZKeyExists(key) == ZKeyExistsAt(records, key)

ZKeys == ZKeysAt(records)

ZScoreRange(key, min, max) == ZScoreRangeAt(records, heap, key, min, max)

ZRevScoreRange(key, max, min) == ZRevScoreRangeAt(records, heap, key, max, min)

ZRangeByScore(key, start, end, config) == ZRangeByScoreAt(records, heap, key, start, end, config)

\* ------------------------------------------------------------- mutators
\* a ZAdd that takes every present member for a payload update, whatever the score
ZAddStepKeepsScore(recs, h, key, score, member, value, newNodeLevel) ==
  LET exists == key \in DOMAIN recs
      hid == Alloc(h, HeadSlots(key))
      h0 == IF exists THEN h ELSE h @@ (hid :> createNode(SkipListMaxLvl, 0, "", "nil"))
      set == IF exists THEN recs[key] ELSE [records |-> EmptyMap, zsl |-> newZSkipList(hid)]
      memberExists == member \in DOMAIN set.records
      existingNode == IF memberExists THEN set.records[member] ELSE Nil
  IN  IF memberExists
      THEN [records |-> MapPut(recs, key, set),
            heap |-> [h0 EXCEPT ![existingNode].value = value],
            out |-> 1]
      ELSE LET d == IF memberExists
                    THEN delete(h0, set.zsl, h0[existingNode].score, member)
                    ELSE [heap |-> h0, zsl |-> set.zsl]
               ins == insert(d.heap, d.zsl, score, member, value, newNodeLevel,
                             Alloc(d.heap, NodeSlots(key, member, score)))
               recs1 == MapPut(recs, key, [records |-> MapPut(set.records, member, ins.node),
                                           zsl |-> ins.zsl])
           IN  [records |-> recs1, heap |-> Collect(ins.heap, recs1), out |-> 1]

\* a ZAdd that deletes and re-inserts a present member even when the score is the same
ZAddStepAlwaysReinserts(recs, h, key, score, member, value, newNodeLevel) ==
  LET exists == key \in DOMAIN recs
      hid == Alloc(h, HeadSlots(key))
      h0 == IF exists THEN h ELSE h @@ (hid :> createNode(SkipListMaxLvl, 0, "", "nil"))
      set == IF exists THEN recs[key] ELSE [records |-> EmptyMap, zsl |-> newZSkipList(hid)]
      memberExists == member \in DOMAIN set.records
      existingNode == IF memberExists THEN set.records[member] ELSE Nil
  IN  IF FALSE
      THEN [records |-> MapPut(recs, key, set),
            heap |-> [h0 EXCEPT ![existingNode].value = value],
            out |-> 1]
      ELSE LET d == IF memberExists
                    THEN delete(h0, set.zsl, h0[existingNode].score, member)
                    ELSE [heap |-> h0, zsl |-> set.zsl]
               ins == insert(d.heap, d.zsl, score, member, value, newNodeLevel,
                             Alloc(d.heap, NodeSlots(key, member, score)))
               recs1 == MapPut(recs, key, [records |-> MapPut(set.records, member, ins.node),
                                           zsl |-> ins.zsl])
           IN  [records |-> recs1, heap |-> Collect(ins.heap, recs1), out |-> 1]

\* a ZAdd that returns the number of members inserted by a score change or a first add
ZAddStepCountsInserts(recs, h, key, score, member, value, newNodeLevel) ==
  LET exists == key \in DOMAIN recs
      hid == Alloc(h, HeadSlots(key))
      h0 == IF exists THEN h ELSE h @@ (hid :> createNode(SkipListMaxLvl, 0, "", "nil"))
      set == IF exists THEN recs[key] ELSE [records |-> EmptyMap, zsl |-> newZSkipList(hid)]
      memberExists == member \in DOMAIN set.records
      existingNode == IF memberExists THEN set.records[member] ELSE Nil
  IN  IF memberExists /\ h0[existingNode].score = score
      THEN [records |-> MapPut(recs, key, set),
            heap |-> [h0 EXCEPT ![existingNode].value = value],
            out |-> 1]
      ELSE LET d == IF memberExists
                    THEN delete(h0, set.zsl, h0[existingNode].score, member)
                    ELSE [heap |-> h0, zsl |-> set.zsl]
               ins == insert(d.heap, d.zsl, score, member, value, newNodeLevel,
                             Alloc(d.heap, NodeSlots(key, member, score)))
               recs1 == MapPut(recs, key, [records |-> MapPut(set.records, member, ins.node),
                                           zsl |-> ins.zsl])
           IN  [records |-> recs1, heap |-> Collect(ins.heap, recs1),
                out |-> IF memberExists THEN 0 ELSE 1]

\* a ZAdd that returns 0 when it only replaced a payload
ZAddStepZeroOnPayload(recs, h, key, score, member, value, newNodeLevel) ==
  LET exists == key \in DOMAIN recs
      hid == Alloc(h, HeadSlots(key))
      h0 == IF exists THEN h ELSE h @@ (hid :> createNode(SkipListMaxLvl, 0, "", "nil"))
      set == IF exists THEN recs[key] ELSE [records |-> EmptyMap, zsl |-> newZSkipList(hid)]
      memberExists == member \in DOMAIN set.records
      existingNode == IF memberExists THEN set.records[member] ELSE Nil
  IN  IF memberExists /\ h0[existingNode].score = score
      THEN [records |-> MapPut(recs, key, set),
            heap |-> [h0 EXCEPT ![existingNode].value = value],
            out |-> 0]
      ELSE LET d == IF memberExists
                    THEN delete(h0, set.zsl, h0[existingNode].score, member)
                    ELSE [heap |-> h0, zsl |-> set.zsl]
               ins == insert(d.heap, d.zsl, score, member, value, newNodeLevel,
                             Alloc(d.heap, NodeSlots(key, member, score)))
               recs1 == MapPut(recs, key, [records |-> MapPut(set.records, member, ins.node),
                                           zsl |-> ins.zsl])
           IN  [records |-> recs1, heap |-> Collect(ins.heap, recs1), out |-> 1]

\* a ZAdd that inserts the node of a changed score without deleting the old one
ZAddStepKeepsOldNode(recs, h, key, score, member, value, newNodeLevel) ==
  LET exists == key \in DOMAIN recs
      hid == Alloc(h, HeadSlots(key))
      h0 == IF exists THEN h ELSE h @@ (hid :> createNode(SkipListMaxLvl, 0, "", "nil"))
      set == IF exists THEN recs[key] ELSE [records |-> EmptyMap, zsl |-> newZSkipList(hid)]
      memberExists == member \in DOMAIN set.records
      existingNode == IF memberExists THEN set.records[member] ELSE Nil
  IN  IF memberExists /\ h0[existingNode].score = score
      THEN [records |-> MapPut(recs, key, set),
            heap |-> [h0 EXCEPT ![existingNode].value = value],
            out |-> 1]
      ELSE LET d == [heap |-> h0, zsl |-> set.zsl]
               ins == insert(d.heap, d.zsl, score, member, value, newNodeLevel,
                             Alloc(d.heap, NodeSlots(key, member, score)))
               recs1 == MapPut(recs, key, [records |-> MapPut(set.records, member, ins.node),
                                           zsl |-> ins.zsl])
           IN  [records |-> recs1, heap |-> Collect(ins.heap, recs1), out |-> 1]

\* ZSet.ZAdd; newNodeLevel is the height getRandomLevel draws if insert runs
ZAddStep(recs, h, key, score, member, value, newNodeLevel) ==
  LET exists == key \in DOMAIN recs
      hid == Alloc(h, HeadSlots(key))
      h0 == IF exists THEN h ELSE h @@ (hid :> createNode(SkipListMaxLvl, 0, "", "nil"))
      set == IF exists THEN recs[key] ELSE [records |-> EmptyMap, zsl |-> newZSkipList(hid)]
      memberExists == member \in DOMAIN set.records
      existingNode == IF memberExists THEN set.records[member] ELSE Nil
  IN  IF memberExists /\ h0[existingNode].score = score
      THEN [records |-> MapPut(recs, key, set),
            heap |-> [h0 EXCEPT ![existingNode].value = value],
            out |-> 1]
      ELSE LET d == IF memberExists
                    THEN delete(h0, set.zsl, h0[existingNode].score, member)
                    ELSE [heap |-> h0, zsl |-> set.zsl]
               ins == insert(d.heap, d.zsl, score, member, value, newNodeLevel,
                             Alloc(d.heap, NodeSlots(key, member, score)))
               recs1 == MapPut(recs, key, [records |-> MapPut(set.records, member, ins.node),
                                           zsl |-> ins.zsl])
           IN  [records |-> recs1, heap |-> Collect(ins.heap, recs1), out |-> 1]

\* a ZRem that unlinks the node but leaves the member in the directory
ZRemStepKeepsEntry(recs, h, key, member) ==
  IF key \notin DOMAIN recs THEN [records |-> recs, heap |-> h, out |-> FALSE]
  ELSE LET set == recs[key]
       IN  IF member \in DOMAIN set.records
           THEN LET d == delete(h, set.zsl, h[set.records[member]].score, member)
                    recs1 == [recs EXCEPT ![key] = [records |-> set.records,
                                                    zsl |-> d.zsl]]
                IN  [records |-> recs1, heap |-> Collect(d.heap, recs1), out |-> TRUE]
           ELSE [records |-> recs, heap |-> h, out |-> FALSE]

\* a ZRem that reports a removal whenever the key exists
ZRemStepTrueOnMissing(recs, h, key, member) ==
  IF key \notin DOMAIN recs THEN [records |-> recs, heap |-> h, out |-> FALSE]
  ELSE LET set == recs[key]
       IN  IF member \in DOMAIN set.records
           THEN LET d == delete(h, set.zsl, h[set.records[member]].score, member)
                    recs1 == [recs EXCEPT ![key] = [records |-> MapDel(set.records, member),
                                                    zsl |-> d.zsl]]
                IN  [records |-> recs1, heap |-> Collect(d.heap, recs1), out |-> TRUE]
           ELSE [records |-> recs, heap |-> h, out |-> TRUE]

\* a ZRem that deletes the key together with its last member
ZRemStepDropsEmptyKey(recs, h, key, member) ==
  IF key \notin DOMAIN recs THEN [records |-> recs, heap |-> h, out |-> FALSE]
  ELSE LET set == recs[key]
       IN  IF member \in DOMAIN set.records
           THEN LET d == delete(h, set.zsl, h[set.records[member]].score, member)
                    recs1 == IF DOMAIN set.records = {member}
                             THEN MapDel(recs, key)
                             ELSE [recs EXCEPT ![key] = [records |-> MapDel(set.records, member),
                                                         zsl |-> d.zsl]]
                IN  [records |-> recs1, heap |-> Collect(d.heap, recs1), out |-> TRUE]
           ELSE [records |-> recs, heap |-> h, out |-> FALSE]

\* ZSet.ZRem
ZRemStep(recs, h, key, member) ==
  IF key \notin DOMAIN recs THEN [records |-> recs, heap |-> h, out |-> FALSE]
  ELSE LET set == recs[key]
       IN  IF member \in DOMAIN set.records
           THEN LET d == delete(h, set.zsl, h[set.records[member]].score, member)
                    recs1 == [recs EXCEPT ![key] = [records |-> MapDel(set.records, member),
                                                    zsl |-> d.zsl]]
                IN  [records |-> recs1, heap |-> Collect(d.heap, recs1), out |-> TRUE]
           ELSE [records |-> recs, heap |-> h, out |-> FALSE]

\* the (member, score) a returned *zslNode carries
NodeOut(h, n) == IF n = Nil THEN <<>> ELSE <<h[n].member, h[n].score>>

\* a ZPopMin that hands the first node back without removing its member
ZPopMinStepKeepsMember(recs, h, key) ==
  IF key \notin DOMAIN recs
  THEN [records |-> recs, heap |-> h, out |-> [node |-> <<>>, err |-> TRUE]]
  ELSE LET firstNode == h[recs[key].zsl.head].level[0].forward
       IN  [records |-> recs, heap |-> h,
            out |-> [node |-> NodeOut(h, firstNode), err |-> FALSE]]

\* a ZPopMin that builds the sorted set of a key that does not exist
\* instead of reporting the error
ZPopMinStepCreatesKey(recs, h, key) ==
  IF key \notin DOMAIN recs
  THEN LET hid == Alloc(h, HeadSlots(key))
       IN  [records |-> MapPut(recs, key, [records |-> EmptyMap, zsl |-> newZSkipList(hid)]),
            heap |-> h @@ (hid :> createNode(SkipListMaxLvl, 0, "", "nil")),
            out |-> [node |-> <<>>, err |-> FALSE]]
  ELSE LET firstNode == h[recs[key].zsl.head].level[0].forward
           r == IF firstNode # Nil THEN ZRemStep(recs, h, key, h[firstNode].member)
                ELSE [records |-> recs, heap |-> h, out |-> FALSE]
       IN  [records |-> r.records, heap |-> r.heap,
            out |-> [node |-> NodeOut(h, firstNode), err |-> FALSE]]

\* ZSet.ZPopMin
ZPopMinStep(recs, h, key) ==
  IF key \notin DOMAIN recs
  THEN [records |-> recs, heap |-> h, out |-> [node |-> <<>>, err |-> TRUE]]
  ELSE LET firstNode == h[recs[key].zsl.head].level[0].forward
           r == IF firstNode # Nil THEN ZRemStep(recs, h, key, h[firstNode].member)
                ELSE [records |-> recs, heap |-> h, out |-> FALSE]
       IN  [records |-> r.records, heap |-> r.heap,
            out |-> [node |-> NodeOut(h, firstNode), err |-> FALSE]]

\* ZSet.ZPopMax
ZPopMaxStep(recs, h, key) ==
  IF key \notin DOMAIN recs
  THEN [records |-> recs, heap |-> h, out |-> [node |-> <<>>, err |-> TRUE]]
  ELSE LET lastNode == recs[key].zsl.tail
           r == IF lastNode # Nil THEN ZRemStep(recs, h, key, h[lastNode].member)
                ELSE [records |-> recs, heap |-> h, out |-> FALSE]
       IN  [records |-> r.records, heap |-> r.heap,
            out |-> [node |-> NodeOut(h, lastNode), err |-> FALSE]]

\* ZSet.ZClear
ZClearStep(recs, h, key) ==
  LET recs1 == IF key \in DOMAIN recs THEN MapDel(recs, key) ELSE recs
  IN  [records |-> recs1, heap |-> Collect(h, recs1)]

\* --------------------------------------------------------------- actions
\* what a ZAdd call is to the history: the member is new to the key, or is
\* there with another score, or is there with this very score
AddCase(key, score, member) ==
  IF key \notin DOMAIN added \/ member \notin DOMAIN added[key] THEN "added"
  ELSE IF added[key][member] = score THEN "payload" ELSE "rescored"

ZAdd(key, score, member, value, newNodeLevel) ==
  LET r == ZAddStep(records, heap, key, score, member, value, newNodeLevel)
  IN  /\ records' = r.records
      /\ heap' = r.heap
      /\ added' = MapPut(added, key,
                         MapPut(IF key \in DOMAIN added THEN added[key] ELSE EmptyMap, member, score))
      /\ ret' = [op |-> "ZAdd", out |-> r.out, case |-> AddCase(key, score, member)]

ZRem(key, member) ==
  LET r == ZRemStep(records, heap, key, member)
  IN  /\ records' = r.records
      /\ heap' = r.heap
      /\ added' = IF key \in DOMAIN added THEN [added EXCEPT ![key] = MapDel(@, member)] ELSE added
      /\ ret' = [op |-> "ZRem", out |-> r.out, case |-> ""]

\* the history forgets the member a pop handed back
Popped(out, key) ==
  IF out.node # <<>> /\ key \in DOMAIN added
  THEN [added EXCEPT ![key] = MapDel(@, out.node[1])]
  ELSE added

ZPopMin(key) ==
  LET r == ZPopMinStep(records, heap, key)
  IN  /\ records' = r.records
      /\ heap' = r.heap
      /\ added' = Popped(r.out, key)
      /\ ret' = [op |-> "ZPopMin", out |-> r.out, case |-> ""]

ZPopMax(key) ==
  LET r == ZPopMaxStep(records, heap, key)
  IN  /\ records' = r.records
      /\ heap' = r.heap
      /\ added' = Popped(r.out, key)
      /\ ret' = [op |-> "ZPopMax", out |-> r.out, case |-> ""]

ZClear(key) ==
  LET r == ZClearStep(records, heap, key)
  IN  /\ records' = r.records
      /\ heap' = r.heap
      /\ added' = MapDel(added, key)
      /\ ret' = [op |-> "ZClear", out |-> Nil, case |-> ""]

\* New: an empty store; no call has been made
Init ==
  /\ records = EmptyMap
  /\ heap = EmptyMap
  /\ added = EmptyMap
  /\ ret = [op |-> "New", out |-> Nil, case |-> ""]

\* the calls a client can make, with arguments drawn from the given sets
Calls(M, S, V, H) ==
  \/ \E key \in Keys, score \in S, member \in M, value \in V, lvl \in H :
       ZAdd(key, score, member, value, lvl)
  \/ \E key \in Keys, member \in M : ZRem(key, member)
  \/ \E key \in Keys : ZPopMin(key)
  \/ \E key \in Keys : ZPopMax(key)
  \/ \E key \in Keys : ZClear(key)

Next == Calls(Members, Scores, {"v1"}, Heights)

Spec == Init /\ [][Next]_vars

\* the same calls with two payloads to tell apart, the scores 0 and MaxScore
\* and the lowest and the tallest height
NextPayload == Calls(Members, {0, MaxScore}, Values, {1, MaxHeight})

SpecPayload == Init /\ [][NextPayload]_vars

\* ------------------------------------------- the queries by score as calls
\* what a query by score is to the history: the key was never added to or
\* was cleared, or the bounds are the wrong way round, or the key has lost
\* all its members, or it holds some
RangeCase(key, min, max) ==
  IF key \notin DOMAIN added THEN "absent"
  ELSE IF min > max THEN "reversed"
  ELSE IF DOMAIN added[key] = {} THEN "emptied"
  ELSE "range"

\* the queries assign to nothing the store holds; a panic is recorded as the
\* outcome of the call, the caller being free to recover from it
ZScoreRangeCall(key, min, max) ==
  /\ ret' = [op |-> "ZScoreRange", out |-> ZScoreRange(key, min, max),
             case |-> RangeCase(key, min, max)]
  /\ UNCHANGED <<records, heap, added>>

ZRevScoreRangeCall(key, max, min) ==
  /\ ret' = [op |-> "ZRevScoreRange", out |-> ZRevScoreRange(key, max, min),
             case |-> RangeCase(key, min, max)]
  /\ UNCHANGED <<records, heap, added>>

ZRangeByScoreCall(key, start, end, config) ==
  /\ ret' = [op |-> "ZRangeByScore", out |-> ZRangeByScore(key, start, end, config),
             case |-> RangeCase(key, start, start)]
  /\ UNCHANGED <<records, heap, added>>

\* the queries by score together with the calls of Calls, those with the
\* lowest and the highest score and the lowest and the tallest height
NextRange ==
  \/ Calls(Members, {0 - 1, MaxScore}, {"v1"}, {1, MaxHeight})
  \/ \E key \in Keys, min \in RangeBounds, max \in RangeBounds : ZScoreRangeCall(key, min, max)
  \/ \E key \in Keys, min \in RangeBounds, max \in RangeBounds : ZRevScoreRangeCall(key, max, min)
  \/ \E key \in Keys, start \in RangeBounds, end \in RangeBounds, config \in RangeConfigs :
       ZRangeByScoreCall(key, start, end, config)

SpecRange == Init /\ [][NextRange]_vars

\* ------------------------------------------------------ calls on two keys
\* the calls of Calls with the key drawn from K
CallsOn(K, M, S, V, H) ==
  \/ \E key \in K, score \in S, member \in M, value \in V, lvl \in H :
       ZAdd(key, score, member, value, lvl)
  \/ \E key \in K, member \in M : ZRem(key, member)
  \/ \E key \in K : ZPopMin(key)
  \/ \E key \in K : ZPopMax(key)
  \/ \E key \in K : ZClear(key)

\* two keys, each with the members a and b, the scores 0 and MaxScore and
\* the lowest and the tallest height
NextKeys == CallsOn(TwoKeys, {"a", "b"}, {0, MaxScore}, {"v1"}, {1, MaxHeight})

SpecKeys == Init /\ [][NextKeys]_vars

\* ------------------------------------- one sequence of calls on two sets
\* The sorted sets of two keys share no node and no field: each key has its
\* own zset, directory, zskiplist and head.  The calls below make every call
\* of a sequence twice, on k1 and on k2, with the same arguments; only the
\* heights that getRandomLevel draws for the two inserts can differ.  ret
\* holds the two outcomes.
\* the history a with the member added to key with the score
HistoryPut(a, key, member, score) ==
  MapPut(a, key, MapPut(IF key \in DOMAIN a THEN a[key] ELSE EmptyMap, member, score))

\* the history a without the member of key
HistoryDel(a, key, member) ==
  IF key \in DOMAIN a THEN [a EXCEPT ![key] = MapDel(@, member)] ELSE a

ZAddTwice(score, member, value, lvl1, lvl2) ==
  \E r1 \in {ZAddStep(records, heap, "k1", score, member, value, lvl1)} :
    \E r2 \in {ZAddStep(r1.records, r1.heap, "k2", score, member, value, lvl2)} :
      /\ records' = r2.records
      /\ heap' = r2.heap
      /\ added' = HistoryPut(HistoryPut(added, "k1", member, score), "k2", member, score)
      /\ ret' = [op |-> "ZAdd", out |-> <<r1.out, r2.out>>, case |-> AddCase("k1", score, member)]

ZRemTwice(member) ==
  \E r1 \in {ZRemStep(records, heap, "k1", member)} :
    \E r2 \in {ZRemStep(r1.records, r1.heap, "k2", member)} :
      /\ records' = r2.records
      /\ heap' = r2.heap
      /\ added' = HistoryDel(HistoryDel(added, "k1", member), "k2", member)
      /\ ret' = [op |-> "ZRem", out |-> <<r1.out, r2.out>>, case |-> ""]

\* the history of key without the member a pop handed back
PoppedFrom(a, out, key) ==
  IF out.node # <<>> /\ key \in DOMAIN a THEN [a EXCEPT ![key] = MapDel(@, out.node[1])] ELSE a

ZPopMinTwice ==
  \E r1 \in {ZPopMinStep(records, heap, "k1")} :
    \E r2 \in {ZPopMinStep(r1.records, r1.heap, "k2")} :
      /\ records' = r2.records
      /\ heap' = r2.heap
      /\ added' = PoppedFrom(PoppedFrom(added, r1.out, "k1"), r2.out, "k2")
      /\ ret' = [op |-> "ZPopMin", out |-> <<r1.out, r2.out>>, case |-> ""]

ZPopMaxTwice ==
  \E r1 \in {ZPopMaxStep(records, heap, "k1")} :
    \E r2 \in {ZPopMaxStep(r1.records, r1.heap, "k2")} :
      /\ records' = r2.records
      /\ heap' = r2.heap
      /\ added' = PoppedFrom(PoppedFrom(added, r1.out, "k1"), r2.out, "k2")
      /\ ret' = [op |-> "ZPopMax", out |-> <<r1.out, r2.out>>, case |-> ""]

ZClearTwice ==
  \E r1 \in {ZClearStep(records, heap, "k1")} :
    \E r2 \in {ZClearStep(r1.records, r1.heap, "k2")} :
      /\ records' = r2.records
      /\ heap' = r2.heap
      /\ added' = MapDel(MapDel(added, "k1"), "k2")
      /\ ret' = [op |-> "ZClear", out |-> Nil, case |-> ""]

\* every member, the scores 0 and MaxScore, and for each of the two inserts
\* the lowest or the tallest height
NextTwice ==
  \/ \E score \in {0, MaxScore}, member \in Members, lvl1, lvl2 \in {1, MaxHeight} :
       ZAddTwice(score, member, "v1", lvl1, lvl2)
  \/ \E member \in Members : ZRemTwice(member)
  \/ ZPopMinTwice
  \/ ZPopMaxTwice
  \/ ZClearTwice

SpecTwice == Init /\ [][NextTwice]_vars

\* ---------------------------------------------------------- the read calls
\* a read that builds the sorted set of a key that does not exist, as a
\* lookup that inserts the key it misses would
ReadStepCreatesKey(recs, h, key, result) ==
  IF key \in DOMAIN recs THEN [records |-> recs, heap |-> h, out |-> result]
  ELSE LET hid == Alloc(h, HeadSlots(key))
       IN  [records |-> MapPut(recs, key, [records |-> EmptyMap, zsl |-> newZSkipList(hid)]),
            heap |-> h @@ (hid :> createNode(SkipListMaxLvl, 0, "", "nil")),
            out |-> result]

\* what a read call does: its code looks records[key] up and follows links,
\* and assigns to no field of the store
ReadStep(recs, h, key, result) == [records |-> recs, heap |-> h, out |-> result]

\* a read call on key; ret keeps, next to the result, the store the call
\* was made on
ReadCall(op, key, result) ==
  LET r == ReadStep(records, heap, key, result)
  IN  /\ records' = r.records
      /\ heap' = r.heap
      /\ added' = added
      /\ ret' = [op |-> op, out |-> [result |-> r.out, records |-> records, heap |-> heap],
                 case |-> ""]

ZScoreCall(key, member) == ReadCall("ZScore", key, ZScore(key, member))

ZCardCall(key) == ReadCall("ZCard", key, ZCard(key))

ZRankCall(key, member) == ReadCall("ZRank", key, ZRank(key, member))

ZRevRankCall(key, member) == ReadCall("ZRevRank", key, ZRevRank(key, member))

ZKeyExistsCall(key) == ReadCall("ZKeyExists", key, ZKeyExists(key))

ZKeysCall(key) == \E ks \in ZKeys : ReadCall("ZKeys", key, ks)

ZRangeCall(key, start, stop) == ReadCall("ZRange", key, ZRange(key, start, stop))

ZRangeWithScoreCall(key, start, stop) ==
  ReadCall("ZRangeWithScore", key, ZRangeWithScore(key, start, stop))

ZRevRangeCall(key, start, stop) == ReadCall("ZRevRange", key, ZRevRange(key, start, stop))

ZRevRangeWithScoreCall(key, start, stop) ==
  ReadCall("ZRevRangeWithScore", key, ZRevRangeWithScore(key, start, stop))

ZScoreRangeRead(key, min, max) == ReadCall("ZScoreRange", key, ZScoreRange(key, min, max))

ZRevScoreRangeRead(key, max, min) ==
  ReadCall("ZRevScoreRange", key, ZRevScoreRange(key, max, min))

ZRetrieveByRankCall(key, rank) == ReadCall("ZRetrieveByRank", key, ZRetrieveByRank(key, rank))

ZRevRetrieveByRankCall(key, rank) ==
  ReadCall("ZRevRetrieveByRank", key, ZRevRetrieveByRank(key, rank))

\* the read calls of the store
ReadOps ==
  {"ZScore", "ZCard", "ZRank", "ZRevRank", "ZKeyExists", "ZKeys", "ZRange", "ZRangeWithScore",
   "ZRevRange", "ZRevRangeWithScore", "ZScoreRange", "ZRevScoreRange", "ZRetrieveByRank",
   "ZRevRetrieveByRank"}

\* the members "" and a, the scores 0 and MaxScore, the lowest and the
\* tallest height, and each read call with indexes from -1 to 1 and score
\* bounds 0 and MaxScore
NextReads ==
  \/ CallsOn(Keys, {"", "a"}, {0, MaxScore}, {"v1"}, {1, MaxHeight})
  \/ \E key \in Keys, member \in {"", "a"} : ZScoreCall(key, member)
  \/ \E key \in Keys : ZCardCall(key)
  \/ \E key \in Keys, member \in {"", "a"} : ZRankCall(key, member)
  \/ \E key \in Keys, member \in {"", "a"} : ZRevRankCall(key, member)
  \/ \E key \in Keys : ZKeyExistsCall(key)
  \/ \E key \in Keys : ZKeysCall(key)
  \/ \E key \in Keys, start, stop \in (0 - 1)..1 : ZRangeCall(key, start, stop)
  \/ \E key \in Keys, start, stop \in (0 - 1)..1 : ZRangeWithScoreCall(key, start, stop)
  \/ \E key \in Keys, start, stop \in (0 - 1)..1 : ZRevRangeCall(key, start, stop)
  \/ \E key \in Keys, start, stop \in (0 - 1)..1 : ZRevRangeWithScoreCall(key, start, stop)
  \/ \E key \in Keys, min, max \in {0, MaxScore} : ZScoreRangeRead(key, min, max)
  \/ \E key \in Keys, min, max \in {0, MaxScore} : ZRevScoreRangeRead(key, max, min)
  \/ \E key \in Keys, rank \in (0 - 1)..1 : ZRetrieveByRankCall(key, rank)
  \/ \E key \in Keys, rank \in (0 - 1)..1 : ZRevRetrieveByRankCall(key, rank)

SpecReads == Init /\ [][NextReads]_vars

\* ------------------------------------------------------------ properties
\* The reference for the properties is the history `added`: the members a
\* key holds and the score each was last added with.

\* the members of key that come strictly before m in (score, member) order
Smaller(key, m) ==
  {x \in DOMAIN added[key] :
     added[key][x] < added[key][m] \/ (added[key][x] = added[key][m] /\ MemberLess(x, m))}

\* the members of key in ascending (score, member) order
Ascending(key) ==
  [i \in 1..Cardinality(DOMAIN added[key]) |->
     CHOOSE m \in DOMAIN added[key] : Cardinality(Smaller(key, m)) = i - 1]

Reverse(seq) == [i \in 1..Len(seq) |-> seq[Len(seq) + 1 - i]]

\* C1: ZRank(key, m) of every member m of a key is the number of members of
\* the key that come strictly before m in (score, member) order.
C1_RankIsPosition ==
  \A key \in DOMAIN added : \A m \in DOMAIN added[key] :
    ZRank(key, m) = Cardinality(Smaller(key, m))

\* C2: for every key and every member m of it,
\* ZRank(key, m) + ZRevRank(key, m) = ZCard(key) - 1.
C2_RankPlusRevRank ==
  \A key \in DOMAIN records : \A m \in DOMAIN records[key].records :
    ZRank(key, m) + ZRevRank(key, m) = ZCard(key) - 1

C2_Witness ==
  /\ ret.op = "ZAdd"
  /\ ZCard("k1") = 3
  /\ \E m \in Members : ZRank("k1", m) = 2 /\ ZRevRank("k1", m) = 0
  /\ \E m \in Members : ZRank("k1", m) = 0 /\ ZRevRank("k1", m) = 2

\* C3: ZCard(key) is the number of distinct members added to the key and not
\* since removed (so re-adding a present member does not change it), it
\* equals the skip list's length counter, and it is 0 for an absent key.
C3_CardCountsMembers ==
  \A key \in Keys :
    /\ ZCard(key) = (IF key \in DOMAIN added THEN Cardinality(DOMAIN added[key]) ELSE 0)
    /\ key \in DOMAIN records => ZCard(key) = records[key].zsl.length
    /\ key \notin DOMAIN records => ZCard(key) = 0

C3_Witness ==
  /\ ret.op = "ZRem"
  /\ ret.out = TRUE
  /\ "k1" \in DOMAIN added
  /\ Cardinality(DOMAIN added["k1"]) = 2
  /\ ZCard("k1") = 2

\* C4: for every existing key ZRange(key, 0, -1) is the sequence of all the
\* members of the key, each once, in ascending (score, member) order.
C4_RangeAllAscending ==
  \A key \in DOMAIN records :
    /\ key \in DOMAIN added
    /\ ZRange(key, 0, 0 - 1) = Ascending(key)

C4_Witness ==
  /\ "k1" \in DOMAIN records
  /\ Len(ZRange("k1", 0, 0 - 1)) = 3
  /\ ZRange("k1", 0, 0 - 1) = <<"b", "a", "">>

\* C5: for every existing key ZRevRange(key, 0, -1) is the exact reverse of
\* ZRange(key, 0, -1).
C5_RevRangeIsReverse ==
  \A key \in DOMAIN records :
    ZRevRange(key, 0, 0 - 1) = Reverse(ZRange(key, 0, 0 - 1))

\* C6: if a and b are both in a key with the same score and a < b as
\* strings, then ZRank(a) < ZRank(b) and ZRevRank(a) > ZRevRank(b).
C6_TieBreakByMember ==
  \A key \in DOMAIN records : \A a, b \in DOMAIN records[key].records :
    (ZScore(key, a)[2] = ZScore(key, b)[2] /\ MemberLess(a, b))
      => /\ ZRank(key, a) < ZRank(key, b)
         /\ ZRevRank(key, a) > ZRevRank(key, b)

\* two members with one score, ranked by member
C6_Witness ==
  /\ ret.op = "ZAdd"
  /\ ret.case = "added"
  /\ "k1" \in DOMAIN records
  /\ {"a", "b"} \subseteq DOMAIN records["k1"].records
  /\ records["k1"].zsl.tail = records["k1"].records["b"]
  /\ ZScore("k1", "a") = ZScore("k1", "b")
  /\ ZRank("k1", "a") = 0
  /\ ZRank("k1", "b") = 1

\* C7: ZScore(key, m) is (true, s) with s the score of the latest ZAdd of m
\* since m was last removed, and (false, 0) when key or member is absent.
C7_ScoreIsLatestAdd ==
  \A key \in Keys : \A m \in Members :
    ZScore(key, m) = (IF key \in DOMAIN added /\ m \in DOMAIN added[key]
                      THEN <<TRUE, added[key][m]>>
                      ELSE <<FALSE, 0>>)

C7_Witness ==
  /\ ret.op = "ZAdd"
  /\ ret.case = "rescored"
  /\ ZCard("k1") = 3
  /\ ZScore("k1", "a") = <<TRUE, 1>>
  /\ ZScore("k1", "b") = <<FALSE, 0>> \/ ZScore("k1", "b")[2] # 1

\* C8: a ZAdd of a member that is present with the identical score replaces
\* only that node's payload: the directory (and so the node it references),
\* the skip list's head, tail, length and level, every link and span, the
\* order and every rank stay as they were, and the outcome is the same for
\* every height the generator could have drawn.
C8_PayloadOnlyUpdate ==
  \A key \in DOMAIN records : \A m \in DOMAIN records[key].records :
    \A v \in Values : \A l \in Heights :
      LET n == records[key].records[m]
          r == ZAddStep(records, heap, key, heap[n].score, m, v, l)
      IN  /\ r.records = records
          /\ r.heap = [heap EXCEPT ![n].value = v]
          /\ ZRangeAt(r.records, r.heap, key, 0, 0 - 1) = ZRange(key, 0, 0 - 1)
          /\ \A x \in Members :
               /\ ZRankAt(r.records, r.heap, key, x) = ZRank(key, x)
               /\ ZRevRankAt(r.records, r.heap, key, x) = ZRevRank(key, x)
          /\ \A l2 \in Heights : ZAddStep(records, heap, key, heap[n].score, m, v, l2) = r

\* a payload was replaced in a set of three
C8_Witness ==
  /\ ret.op = "ZAdd"
  /\ ret.case = "payload"
  /\ ZCard("k1") = 3
  /\ \E m \in DOMAIN records["k1"].records :
       /\ heap[records["k1"].records[m]].value = "v2"
       /\ ZRank("k1", m) = 1
       /\ Cardinality(DOMAIN heap[records["k1"].records[m]].level) = 2

\* C9: ZAdd returns 1 on every call: for a new member, for a changed score
\* and for a replaced payload.
C9_AddReturnsOne ==
  ret.op = "ZAdd" => (ret.case \in {"added", "rescored", "payload"} /\ ret.out = 1)

C9_Witness ==
  /\ ret.op = "ZAdd"
  /\ ret.case = "rescored"
  /\ ret.out = 1

\* C10 as stated: Add returns 1 when it inserted a member that was not
\* present and 0 when it only updated a member that was present.
C10_AddReturnsInsertionCount ==
  ret.op = "ZAdd" => ret.out = (IF ret.case = "added" THEN 1 ELSE 0)

\* C10 amended: Add returns 1 also when the call only updated a member that
\* was already present, so the result does not tell inserted from updated.
C10_UpdateReturnsOne ==
  (ret.op = "ZAdd" /\ ret.case # "added") => ret.out = 1

C10_Witness ==
  /\ ret.op = "ZAdd"
  /\ ret.case = "payload"
  /\ ret.out = 1

\* C11: ZRem(key, m) of a present member m returns true and removes exactly
\* m: afterwards ZScore(key, m) is not-found, every other member is still
\* there with its score, every other member whose ZRank was above m's has
\* its ZRank decreased by exactly one, and every member whose ZRank was
\* below m's keeps its ZRank.
C11_RemRemovesOnlyMember ==
  \A key \in DOMAIN records : \A m \in DOMAIN records[key].records :
    LET r == ZRemStep(records, heap, key, m)
    IN  /\ r.out = TRUE
        /\ ZScoreAt(r.records, r.heap, key, m) = <<FALSE, 0>>
        /\ \A x \in DOMAIN records[key].records \ {m} :
             /\ ZScoreAt(r.records, r.heap, key, x) = ZScore(key, x)
             /\ ZRank(key, x) > ZRank(key, m)
                  => ZRankAt(r.records, r.heap, key, x) = ZRank(key, x) - 1
             /\ ZRank(key, x) < ZRank(key, m)
                  => ZRankAt(r.records, r.heap, key, x) = ZRank(key, x)

\* C12: ZRem(key, m) returns false and leaves the whole store as it was (the
\* keys, the directory, the links, spans, length and level of the skip list)
\* when the key does not exist and when the key exists without the member m.
C12_RemOfMissingChangesNothing ==
  \A key \in Keys : \A m \in Members :
    (key \notin DOMAIN added \/ m \notin DOMAIN added[key])
      => LET r == ZRemStep(records, heap, key, m)
         IN  /\ r.out = FALSE
             /\ r.records = records
             /\ r.heap = heap

\* a ZRem of a member the key does not hold has returned false on a key that
\* holds two others
C12_Witness ==
  /\ ret.op = "ZRem"
  /\ ret.out = FALSE
  /\ ZCard("k1") = 2
  /\ "a" \notin DOMAIN records["k1"].records
  /\ ZRemStep(records, heap, "k1", "a").out = FALSE

\* C13: in every reachable state, a ZAdd of a member the key does not hold
\* followed at once by the ZRem of that member brings ZCard(key) and the ZRank
\* and the ZScore of every other member back to what they were before the
\* ZAdd, for every score and for every height drawn for the inserted node.
C13_AddThenRemRoundTrip ==
  \A key \in Keys : \A m \in Members :
    (key \notin DOMAIN records \/ m \notin DOMAIN records[key].records)
      => \A s \in Scores : \A l \in Heights :
           LET a == ZAddStep(records, heap, key, s, m, "v1", l)
               r == ZRemStep(a.records, a.heap, key, m)
           IN  /\ r.out = TRUE
               /\ ZCardAt(a.records, key) = ZCard(key) + 1
               /\ ZCardAt(r.records, key) = ZCard(key)
               /\ \A x \in Members \ {m} :
                    /\ ZRankAt(r.records, r.heap, key, x) = ZRank(key, x)
                    /\ ZScoreAt(r.records, r.heap, key, x) = ZScore(key, x)

\* two members of different heights are held and the third can be added
\* between them and removed again
C13_Witness ==
  /\ "k1" \in DOMAIN records
  /\ DOMAIN records["k1"].records = {"a", "b"}
  /\ ZRank("k1", "a") = 1
  /\ Cardinality(DOMAIN heap[records["k1"].records["a"]].level) = MaxHeight
  /\ Cardinality(DOMAIN heap[records["k1"].records["b"]].level) = 1
  /\ LET a == ZAddStep(records, heap, "k1", ZScore("k1", "a")[2], "", "v1", 1)
     IN  /\ ZRankAt(a.records, a.heap, "k1", "a") = 2
         /\ ZRemStep(a.records, a.heap, "k1", "").out = TRUE

\* C14: ZRank and ZRevRank return -1 when the key does not exist and when
\* the key exists without the member, and never return -1 for a member the
\* key holds.
C14_MinusOneIffAbsent ==
  \A key \in Keys : \A m \in Members :
    LET present == key \in DOMAIN added /\ m \in DOMAIN added[key]
    IN  /\ (ZRank(key, m) = 0 - 1) <=> ~present
        /\ (ZRevRank(key, m) = 0 - 1) <=> ~present

\* a key that holds b alone, a having been removed
C14_Witness ==
  /\ ret.op = "ZRem"
  /\ ret.out = TRUE
  /\ "k1" \in DOMAIN records
  /\ DOMAIN records["k1"].records = {"b"}
  /\ ZRank("k1", "a") = 0 - 1
  /\ ZRevRank("k1", "a") = 0 - 1
  /\ ZRank("k1", "b") = 0
  /\ ZRevRank("k1", "b") = 0

\* the members of key, in ascending order, whose score s has min <= s <= max
ScoredWithin(key, min, max) ==
  SelectSeq(Ascending(key), LAMBDA m : min <= added[key][m] /\ added[key][m] <= max)

\* the members of seq interleaved with their scores
Pairs(key, seq) ==
  [i \in 1..(2 * Len(seq)) |->
     IF i % 2 = 1 THEN seq[(i + 1) \div 2] ELSE added[key][seq[i \div 2]]]

\* an interleaved sequence of pairs with the pairs in the opposite order
PairReverse(seq) ==
  [i \in 1..Len(seq) |->
     IF i % 2 = 1 THEN seq[Len(seq) - i] ELSE seq[Len(seq) + 2 - i]]

\* the keys that hold at least one member
NonEmptyKeys == {key \in DOMAIN added : DOMAIN added[key] # {}}

C16_OutsideExtentReturnsBoundary ==
  \A key \in NonEmptyKeys : \A min, max \in RangeBounds :
    LET all == Ascending(key)
    IN  /\ (min <= max /\ min > added[key][all[Len(all)]])
             => ZScoreRange(key, min, max) = Pairs(key, <<all[Len(all)]>>)
        /\ (min <= max /\ max < added[key][all[1]])
             => ZScoreRange(key, min, max) = Pairs(key, <<all[1]>>)

\* C16 amended: a score-range query whose bounds lie wholly outside the
\* scores present returns the empty result; clamping the bounds to the data
\* extent brings no element in.
C16_OutsideExtentIsEmpty ==
  \A key \in DOMAIN records :
    LET first == heap[records[key].zsl.head].level[0].forward
        tail == records[key].zsl.tail
    IN  first # Nil =>
          \A min, max \in RangeBounds :
            (min <= max /\ (min > heap[tail].score \/ max < heap[first].score))
              => ZScoreRange(key, min, max) = <<>>

\* two members, scored -1 and 0: the queries above and below both are empty
C16_Witness ==
  /\ "k1" \in DOMAIN records
  /\ ZCard("k1") = 2
  /\ records["k1"].zsl.tail # Nil
  /\ heap[records["k1"].zsl.tail].score = 0
  /\ heap[heap[records["k1"].zsl.head].level[0].forward].score = 0 - 1
  /\ ZScoreRange("k1", 1, MaxScore + 1) = <<>>
  /\ ZScoreRange("k1", 0 - 2, 0 - 2) = <<>>
  /\ ZScoreRange("k1", 0 - 2, MaxScore + 1) = <<"a", 0 - 1, "b", 0>>

\* C17: for an existing non-empty key and min <= max, ZRevScoreRange(key,
\* max, min) is exactly the members with min <= score <= max as (member,
\* score) pairs in descending order, the pair-wise reverse of
\* ZScoreRange(key, min, max), for every combination of bounds and stored
\* scores (zero and negative scores and bounds below the lowest score too).
C17_RevScoreRangeIsReverse ==
  \A key \in NonEmptyKeys : \A min, max \in RangeBounds :
    min <= max
      => /\ ZRevScoreRange(key, max, min) = PairReverse(ZScoreRange(key, min, max))
         /\ ZRevScoreRange(key, max, min)
              = PairReverse(Pairs(key, ScoredWithin(key, min, max)))

\* C18: ZScoreRange(key, min, max) and ZRevScoreRange(key, max, min) return
\* the empty result whenever min > max and whenever the key does not exist,
\* the calls assigning to nothing in the store: every such call that was made
\* returned the empty result and left the store in step with the history,
\* and every such call that can be made now returns the empty result.
C18_EmptyOnReversedOrAbsent ==
  /\ (ret.op \in {"ZScoreRange", "ZRevScoreRange"} /\ ret.case \in {"absent", "reversed"})
       => /\ ret.out = <<>>
          /\ DOMAIN records = DOMAIN added
          /\ \A key \in DOMAIN records :
               /\ DOMAIN records[key].records = DOMAIN added[key]
               /\ \A m \in DOMAIN added[key] : ZScore(key, m) = <<TRUE, added[key][m]>>
  /\ \A key \in Keys : \A min, max \in RangeBounds :
       (key \notin DOMAIN records \/ min > max)
         => /\ ZScoreRange(key, min, max) = <<>>
            /\ ZRevScoreRange(key, max, min) = <<>>

\* ZRevScoreRange was called with min > max on a key whose three members all
\* lie between the bounds taken the other way round
C18_Witness ==
  /\ ret.op = "ZRevScoreRange"
  /\ ret.case = "reversed"
  /\ ret.out = <<>>
  /\ ZCard("k1") = 3
  /\ Len(ZRevScoreRange("k1", MaxScore, 0 - 1)) = 6
  /\ ZRevScoreRange("k1", 0 - 1, MaxScore) = <<>>
  /\ ZScoreRange("k1", MaxScore, 0 - 1) = <<>>

\* the members ZRangeByScore(key, start, end, config) is to return for
\* start <= end: those scored between start and end, an end left out when
\* its flag is set, in ascending order, at most Limit of them when Limit > 0
ByScoreExpected(key, start, end, config) ==
  LET sel == SelectSeq(Ascending(key),
                       LAMBDA m : /\ IF config.ExcludeStart THEN start < added[key][m]
                                     ELSE start <= added[key][m]
                                  /\ IF config.ExcludeEnd THEN added[key][m] < end
                                     ELSE added[key][m] <= end)
  IN  IF config.Limit > 0 /\ Len(sel) > config.Limit THEN SubSeq(sel, 1, config.Limit) ELSE sel

\* C19: on an existing non-empty key ZRangeByScore(key, start, end, config)
\* returns the nodes whose score lies between start and end, an end left out
\* when its ExcludeStart/ExcludeEnd flag is set, in traversal order, and at
\* most config.Limit of them when Limit > 0 (scores 2.0, 3.5, 4.2 with Limit
\* 2 and ExcludeEnd: the query 2.0..4.0 returns the nodes scored 2.0, 3.5).
C19_RangeByScoreReturnsNodes ==
  \A key \in NonEmptyKeys : \A start, end \in RangeBounds : \A config \in RangeConfigs :
    start <= end
      => LET res == ZRangeByScore(key, start, end, config)
         IN  /\ res # Panic
             /\ [i \in 1..Len(res) |-> heap[res[i]].member]
                  = ByScoreExpected(key, start, end, config)

\* C20: ZRangeByScore on a key that does not exist completes normally and
\* returns the empty slice (the call reads the store and assigns nothing).
C20_RangeByScoreAbsentKeyEmpty ==
  \A key \in Keys \ DOMAIN records : \A start, end \in RangeBounds : \A config \in RangeConfigs :
    ZRangeByScore(key, start, end, config) = <<>>

\* seq without its element at index i
DropAt(seq, i) == [j \in 1..(Len(seq) - 1) |-> IF j < i THEN seq[j] ELSE seq[j + 1]]

\* C21: on an existing non-empty key ZPopMin returns the member that is first
\* in ascending (score, member) order and ZPopMax the member that is last,
\* with no error; afterwards that member is absent (ZScore not-found), ZCard
\* is lower by exactly one, and all the other members are there with their
\* scores and in the same relative order.
C21_PopTakesFirstOrLast ==
  \A key \in NonEmptyKeys :
    LET all == Ascending(key)
        n == Len(all)
        after(r, i) ==
          /\ r.out = [node |-> <<all[i], added[key][all[i]]>>, err |-> FALSE]
          /\ ZScoreAt(r.records, r.heap, key, all[i]) = <<FALSE, 0>>
          /\ ZCardAt(r.records, key) = ZCard(key) - 1
          /\ \A x \in DOMAIN added[key] \ {all[i]} :
               ZScoreAt(r.records, r.heap, key, x) = <<TRUE, added[key][x]>>
          /\ ZRangeAt(r.records, r.heap, key, 0, 0 - 1) = DropAt(all, i)
    IN  /\ after(ZPopMinStep(records, heap, key), 1)
        /\ after(ZPopMaxStep(records, heap, key), n)

\* ZPopMax has taken b, scored MaxScore, from a set of three and another
\* pop of either kind has a member to take
C21_Witness ==
  /\ ret.op = "ZPopMax"
  /\ ret.out = [node |-> <<"b", MaxScore>>, err |-> FALSE]
  /\ ZCard("k1") = 2
  /\ ZScore("k1", "b") = <<FALSE, 0>>
  /\ ZPopMinStep(records, heap, "k1").out.node # ZPopMaxStep(records, heap, "k1").out.node

\* C22: ZPopMin and ZPopMax on a key that does not exist return a nil node
\* together with a non-nil error, do not create the key and change no state.
C22_PopOfAbsentKeyIsError ==
  \A key \in Keys \ DOMAIN records :
    LET mn == ZPopMinStep(records, heap, key)
        mx == ZPopMaxStep(records, heap, key)
    IN  /\ mn.out = [node |-> <<>>, err |-> TRUE]
        /\ mx.out = [node |-> <<>>, err |-> TRUE]
        /\ mn.records = records /\ mn.heap = heap
        /\ mx.records = records /\ mx.heap = heap
        /\ key \notin DOMAIN mn.records
        /\ key \notin DOMAIN mx.records

\* a pop was made on a store that holds no key and no node
C22_Witness ==
  /\ ret.op \in {"ZPopMin", "ZPopMax"}
  /\ ret.out = [node |-> <<>>, err |-> TRUE]
  /\ "k1" \notin DOMAIN records
  /\ heap = EmptyMap

\* C23: ZPopMin and ZPopMax on a key that exists but whose sorted set is
\* empty (every member was removed) return (nil, non-nil error), as for a
\* key that does not exist.
C23_PopOfEmptiedKeyIsError ==
  \A key \in DOMAIN records :
    ZCard(key) = 0
      => /\ ZPopMinStep(records, heap, key).out = [node |-> <<>>, err |-> TRUE]
         /\ ZPopMaxStep(records, heap, key).out = [node |-> <<>>, err |-> TRUE]

\* an index against n members: a negative one counts from the end, and is 0
\* when it is still negative
Normalized(v, n) == IF v >= 0 THEN v ELSE IF v + n >= 0 THEN v + n ELSE 0

\* C24: for an existing key with n members ZRange(key, start, stop) takes
\* each negative index as that index plus n (0 if still negative), returns
\* the empty result when the normalized start > stop or start >= n, and
\* otherwise exactly the members at the 0-based ascending positions start ..
\* min(stop, n - 1), in order; a stop past the end brings neither a failure
\* nor more elements.
C24_RangeByPosition ==
  \A key \in DOMAIN records : \A start, stop \in IdxArgs :
    LET all == Ascending(key)
        n == Len(all)
        s1 == Normalized(start, n)
        e1 == Normalized(stop, n)
        last == IF e1 < n - 1 THEN e1 ELSE n - 1
    IN  ZRange(key, start, stop)
          = (IF s1 > e1 \/ s1 >= n THEN <<>> ELSE SubSeq(all, s1 + 1, last + 1))

\* three members: a range counted from the end with its stop past the end,
\* a start at the length, and a start below minus the length
C24_Witness ==
  /\ "k1" \in DOMAIN records
  /\ ZCard("k1") = 3
  /\ ZRange("k1", 0 - 2, 4) = <<"", "a">>
  /\ ZRange("k1", 3, 4) = <<>>
  /\ ZRange("k1", 0 - 4, 0) = <<"b">>
  /\ ZRange("k1", 1, 0) = <<>>

\* C25: a key exists (ZKeyExists is true and every listing of ZKeys holds it
\* exactly once) if and only if ZAdd was called on it since its last ZClear
\* (the keys of the history): a ZAdd on an absent key creates it, taking
\* the last member away with ZRem, ZPopMin or ZPopMax leaves the key there
\* with ZCard 0, ZClear deletes it and ZClear of an absent key does nothing.
C25_KeyExistsIffAddedSinceClear ==
  \A key \in TwoKeys :
    /\ ZKeyExists(key) <=> key \in DOMAIN added
    /\ \A ks \in ZKeys :
         Cardinality({i \in DOMAIN ks : ks[i] = key}) = (IF key \in DOMAIN added THEN 1 ELSE 0)
    /\ ZKeyExistsAt(ZAddStep(records, heap, key, 0, "a", "v1", 1).records, key)
    /\ key \notin DOMAIN ZClearStep(records, heap, key).records
    /\ key \notin DOMAIN records
         => ZClearStep(records, heap, key) = [records |-> records, heap |-> heap]
    /\ (key \in DOMAIN records /\ ZCard(key) = 1)
         => \A recs \in {ZRemStep(records, heap, key,
                                  CHOOSE m \in DOMAIN records[key].records : TRUE).records,
                         ZPopMinStep(records, heap, key).records,
                         ZPopMaxStep(records, heap, key).records} :
              ZKeyExistsAt(recs, key) /\ ZCardAt(recs, key) = 0

\* k1 has lost its last member to a ZPopMin and is still listed, next to k2
C25_Witness ==
  /\ ret.op = "ZPopMin"
  /\ ret.out.err = FALSE
  /\ ret.out.node # <<>>
  /\ DOMAIN records = {"k1", "k2"}
  /\ ZCard("k1") = 0
  /\ ZCard("k2") = 2
  /\ ZKeys = {<<"k1", "k2">>, <<"k2", "k1">>}

\* C26: ZRetrieveByRank and ZRevRetrieveByRank return the empty slice when
\* the key does not exist and when the 0-based rank is out of bounds (rank <
\* 0 or rank >= the number of members).
C26_RetrieveOutOfBoundsIsEmpty ==
  \A key \in Keys : \A rank \in IdxArgs :
    (key \notin DOMAIN records \/ rank < 0 \/ rank >= ZCard(key))
      => /\ ZRetrieveByRank(key, rank) = <<>>
         /\ ZRevRetrieveByRank(key, rank) = <<>>

\* C27: ZScoreRange and ZRevScoreRange on a key that exists but holds no
\* member (all were removed by ZRem, ZPopMin or ZPopMax) complete normally
\* and return the empty result.
C27_ScoreRangeOfEmptiedKeyIsEmpty ==
  \A key \in DOMAIN records :
    ZCard(key) = 0
      => \A min, max \in RangeBounds :
           /\ ZScoreRange(key, min, max) = <<>>
           /\ ZRevScoreRange(key, max, min) = <<>>

\* the nodes on the forward chain of level L that starts at node
RECURSIVE ChainFrom(_, _, _)
ChainFrom(h, node, L) ==
  IF node = Nil THEN <<>> ELSE <<node>> \o ChainFrom(h, h[node].level[L].forward, L)

\* the real nodes of a skip list along level L, in the order of the chain
Chain(h, zl, L) == ChainFrom(h, h[zl.head].level[L].forward, L)

\* the 1-based place of node x on the level-0 chain c0, 0 for the head
Place(c0, x) == IF \E i \in DOMAIN c0 : c0[i] = x THEN CHOOSE i \in DOMAIN c0 : c0[i] = x ELSE 0

\* the sum of the spans of the first n links of level L, counted from the head
RECURSIVE SpanSum(_, _, _, _)
SpanSum(h, node, L, n) ==
  IF n = 0 THEN 0
  ELSE h[node].level[L].span + SpanSum(h, h[node].level[L].forward, L, n - 1)

\* C28: in every reachable state, for every active level L (0 <= L < level)
\* and every node x (the head too, at place 0) with a forward node y at L,
\* the span of x at L is place(y) - place(x), place being the 1-based place
\* on the level-0 chain; so every level-0 link has span 1, the spans along a
\* level from the head to a node sum to its 1-based rank, and no span of any
\* node is below zero (no wrap-around of the unsigned counter).
C28_SpanInvariant ==
  /\ \A x \in DOMAIN heap : \A L \in DOMAIN heap[x].level : heap[x].level[L].span >= 0
  /\ \A key \in DOMAIN records :
       LET zl == records[key].zsl
           c0 == Chain(heap, zl, 0)
       IN  \A L \in 0..(zl.level - 1) :
             LET cL == Chain(heap, zl, L)
             IN  /\ \A x \in {zl.head} \cup {cL[i] : i \in DOMAIN cL} :
                      LET y == heap[x].level[L].forward
                      IN  y # Nil =>
                            /\ heap[x].level[L].span = Place(c0, y) - Place(c0, x)
                            /\ L = 0 => heap[x].level[L].span = 1
                 /\ \A i \in DOMAIN cL :
                      SpanSum(heap, zl.head, L, i) = Place(c0, cL[i])

\* a ZRem has left two nodes, the second of them the only tall one, so that
\* the head's link at the top level passes over the first
C28_Witness ==
  /\ ret.op = "ZRem"
  /\ ret.out = TRUE
  /\ "k1" \in DOMAIN records
  /\ records["k1"].zsl.length = 2
  /\ records["k1"].zsl.level = MaxHeight
  /\ heap[records["k1"].zsl.head].level[MaxHeight - 1].span = 2
  /\ heap[records["k1"].zsl.head].level[MaxHeight - 1].forward = records["k1"].zsl.tail

\* node x comes strictly before node y in (score, member) order
NodeLess(h, x, y) ==
  h[x].score < h[y].score \/ (h[x].score = h[y].score /\ MemberLess(h[x].member, h[y].member))

\* C29: in every reachable state the level-0 forward chain from the head
\* visits the real nodes in strictly ascending (score, member) order, and
\* the forward chain of every higher active level is the subsequence of it
\* made of exactly the nodes whose height exceeds that level.
C29_ChainsAscendingAndNested ==
  \A key \in DOMAIN records :
    LET zl == records[key].zsl
        c0 == Chain(heap, zl, 0)
    IN  /\ \A i \in 1..(Len(c0) - 1) : NodeLess(heap, c0[i], c0[i + 1])
        /\ \A L \in 1..(zl.level - 1) :
             Chain(heap, zl, L)
               = SelectSeq(c0, LAMBDA x : Cardinality(DOMAIN heap[x].level) > L)

\* three nodes, the middle one short between two nodes of the top level
C29_Witness ==
  /\ ret.op = "ZAdd"
  /\ "k1" \in DOMAIN records
  /\ records["k1"].zsl.level = MaxHeight
  /\ Len(Chain(heap, records["k1"].zsl, 0)) = 3
  /\ Len(Chain(heap, records["k1"].zsl, MaxHeight - 1)) = 2
  /\ Cardinality(DOMAIN heap[Chain(heap, records["k1"].zsl, 0)[2]].level) = 1

\* the nodes that can be reached from the head of a skip list along the
\* forward links of any level
ForwardReach(h, zl) ==
  UNION {{c[i] : i \in DOMAIN c} : c \in {Chain(h, zl, L) : L \in LevelIdx}}

\* C30: in every reachable state the member directory and the skip list of a
\* key agree: the members of the directory are the members on the level-0
\* chain, no member is on the chain twice, and directory[m] is the very node
\* of the chain that carries m (so its score is the chain's); and after a
\* ZAdd that changes the score of m the old node of m cannot be reached from
\* the head at any level.
C30_DirectoryMatchesChain ==
  \A key \in DOMAIN records :
    LET dir == records[key].records
        zl == records[key].zsl
        c0 == Chain(heap, zl, 0)
    IN  /\ {heap[c0[i]].member : i \in DOMAIN c0} = DOMAIN dir
        /\ \A i, j \in DOMAIN c0 : heap[c0[i]].member = heap[c0[j]].member => i = j
        /\ \A i \in DOMAIN c0 : dir[heap[c0[i]].member] = c0[i]
        /\ ForwardReach(heap, zl) = {c0[i] : i \in DOMAIN c0}
        /\ \A m \in DOMAIN dir : \A s \in Scores \ {heap[dir[m]].score} : \A l \in Heights :
             LET r == ZAddStep(records, heap, key, s, m, "v1", l)
             IN  /\ dir[m] \notin ForwardReach(r.heap, r.records[key].zsl)
                 /\ r.records[key].records[m] \in ForwardReach(r.heap, r.records[key].zsl)
                 /\ r.heap[r.records[key].records[m]].score = s

\* a ZAdd has changed the score of a, which now stands last of three
C30_Witness ==
  /\ ret.op = "ZAdd"
  /\ ret.case = "rescored"
  /\ "k1" \in DOMAIN records
  /\ ZCard("k1") = 3
  /\ records["k1"].records["a"] = records["k1"].zsl.tail
  /\ heap[records["k1"].zsl.tail].score = MaxScore
  /\ Len(Chain(heap, records["k1"].zsl, 0)) = 3

\* the heights of the real nodes of a skip list
ChainHeights(h, zl) ==
  LET c0 == Chain(h, zl, 0) IN {Cardinality(DOMAIN h[c0[i]].level) : i \in DOMAIN c0}

\* C31: in every reachable state 1 <= level <= 32, and level is the
\* greatest height among the nodes now in the list, 1 when the list is
\* empty: insert raises level to the height of a taller new node and delete
\* lowers it while the head has no forward node at the topmost level.
C31_LevelIsGreatestHeight ==
  \A key \in DOMAIN records :
    LET zl == records[key].zsl
        hs == ChainHeights(heap, zl)
    IN  /\ zl.level >= 1
        /\ zl.level <= SkipListMaxLvl
        /\ zl.level = (IF hs = {} THEN 1 ELSE CHOOSE x \in hs : \A y \in hs : y <= x)
        /\ heap[zl.head].level[zl.level - 1].forward = Nil => zl.level = 1

\* a ZAdd has put the node b of the greatest height behind a node of height
\* 1, raising the level, and the ZRem of b would lower the level to 1 again
C31_Witness ==
  /\ ret.op = "ZAdd"
  /\ "k1" \in DOMAIN records
  /\ records["k1"].zsl.level = MaxHeight
  /\ DOMAIN records["k1"].records = {"a", "b"}
  /\ Cardinality(DOMAIN heap[records["k1"].records["a"]].level) = 1
  /\ Cardinality(DOMAIN heap[records["k1"].records["b"]].level) = MaxHeight
  /\ ZRemStep(records, heap, "k1", "b").records["k1"].zsl.level = 1

\* C32: in every reachable state the tail of a sorted set points at the
\* highest-ordered real node, or at the head sentinel if the list is empty,
\* also after every member has been removed.
C32_TailIsLastOrHead ==
  \A key \in DOMAIN records :
    LET zl == records[key].zsl
        c0 == Chain(heap, zl, 0)
    IN  zl.tail = (IF c0 = <<>> THEN zl.head ELSE c0[Len(c0)])

\* the nodes on the chain of backward links that starts at node
RECURSIVE BackChainFrom(_, _)
BackChainFrom(h, node) ==
  IF node = Nil THEN <<>> ELSE <<node>> \o BackChainFrom(h, h[node].backwards)

\* C33: in every reachable state the backward link of each real node is its
\* predecessor on the level-0 chain, and is none exactly for the first node
\* (never the head sentinel); so the backward links followed from the tail
\* visit exactly the nodes of the level-0 forward chain, in reverse order.
C33_BackwardIsPredecessor ==
  \A key \in DOMAIN records :
    LET zl == records[key].zsl
        c0 == Chain(heap, zl, 0)
    IN  /\ \A i \in DOMAIN c0 :
             /\ heap[c0[i]].backwards = (IF i = 1 THEN Nil ELSE c0[i - 1])
             /\ heap[c0[i]].backwards # zl.head
        /\ BackChainFrom(heap, zl.tail) = Reverse(c0)

\* a ZAdd has made a list of three nodes of one score, and the ZRem of the
\* middle one would link the last node back to the first
C33_Witness ==
  /\ ret.op = "ZAdd"
  /\ "k1" \in DOMAIN records
  /\ Len(BackChainFrom(heap, records["k1"].zsl.tail)) = 3
  /\ \A m \in Members : ZScore("k1", m) = <<TRUE, 0>>
  /\ LET r == ZRemStep(records, heap, "k1", "a")
     IN  r.heap[r.records["k1"].records["b"]].backwards = records["k1"].records[""]

\* the indexes from 0 up to one past the greatest number of members
NatIdxArgs == {i \in IdxArgs : i >= 0}

\* C34: for an existing key with n members and 0 <= start <= stop,
\* ZRevRange(key, start, stop) returns the members at the 0-based descending
\* positions start .. min(stop, n - 1), position 0 being the highest-ordered
\* member, that is the slice of the reversed ZRange(key, 0, n - 1), and it
\* returns the empty result when start >= n.
C34_RevRangeByPosition ==
  \A key \in DOMAIN records : \A start, stop \in NatIdxArgs :
    start <= stop =>
      LET rev == Reverse(Ascending(key))
          n == Len(rev)
          last == IF stop < n - 1 THEN stop ELSE n - 1
      IN  /\ n = ZCard(key)
          /\ rev = Reverse(ZRange(key, 0, n - 1))
          /\ ZRevRange(key, start, stop)
               = (IF start >= n THEN <<>> ELSE SubSeq(rev, start + 1, last + 1))

\* three members: a slice from the second highest with its stop past the
\* end, the highest alone, and a start at the length
C34_Witness ==
  /\ "k1" \in DOMAIN records
  /\ ZCard("k1") = 3
  /\ ZRevRange("k1", 1, 4) = <<"a", "">>
  /\ ZRevRange("k1", 0, 0) = <<"b">>
  /\ ZRevRange("k1", 3, 3) = <<>>

\* C35: rank lookup and rank retrieval are inverse: for every member m of a
\* key, ZRetrieveByRank(key, ZRank(key, m)) and ZRevRetrieveByRank(key,
\* ZRevRank(key, m)) both return [m, score(m)]; and the node-at-rank lookup
\* yields the r-th node of the level-0 chain for every 1 <= r <= length and
\* none for r = 0 and for r > length.
C35_RankAndRetrieveInverse ==
  \A key \in DOMAIN records :
    LET zl == records[key].zsl
        c0 == Chain(heap, zl, 0)
    IN  /\ \A m \in DOMAIN records[key].records :
             /\ ZRetrieveByRank(key, ZRank(key, m)) = <<m, ZScore(key, m)[2]>>
             /\ ZRevRetrieveByRank(key, ZRevRank(key, m)) = <<m, ZScore(key, m)[2]>>
        /\ \A r \in 0..(Cardinality(Members) + 1) :
             getNodeByRank(heap, zl, r) = (IF r >= 1 /\ r <= zl.length THEN c0[r] ELSE Nil)

\* the members of seq, each followed by the score the key stores for it
WithScores(key, seq) ==
  [i \in 1..(2 * Len(seq)) |->
     IF i % 2 = 1 THEN seq[(i + 1) \div 2] ELSE ZScore(key, seq[i \div 2])[2]]

\* C36: for every existing key and every start and stop, negative indexes
\* included, ZRangeWithScore(key, start, stop) returns the members of
\* ZRange(key, start, stop) in the same order, each followed by its score,
\* and ZRevRangeWithScore relates to ZRevRange in the same way.
C36_WithScoreMatchesPlain ==
  \A key \in DOMAIN records : \A start, stop \in IdxArgs :
    /\ ZRangeWithScore(key, start, stop) = WithScores(key, ZRange(key, start, stop))
    /\ ZRevRangeWithScore(key, start, stop) = WithScores(key, ZRevRange(key, start, stop))

\* every member of the result seq of a query on key is stored in the key
MembersStored(key, seq) == \A i \in DOMAIN seq : seq[i] \in DOMAIN records[key].records

\* every (member, score) of the interleaved result seq of a query on key is a
\* member stored in the key with that score; a panic emits nothing
PairsStored(key, seq) ==
  seq # Panic =>
    \A i \in DOMAIN seq : i % 2 = 1 => ZScore(key, seq[i]) = <<TRUE, seq[i + 1]>>

\* C37: no query returns the head sentinel: every (member, score) that
\* ZRange, ZRevRange, their WithScore variants, ZScoreRange, ZRevScoreRange,
\* ZPopMin and ZPopMax emit is a member stored in the key (for the pops:
\* stored until the call) with that score, so that the sentinel's "" with
\* score 0 appears only if a real member "" with score 0 was added.
C37_NoQueryReturnsHead ==
  \A key \in DOMAIN records :
    /\ \A start, stop \in IdxArgs :
         /\ MembersStored(key, ZRange(key, start, stop))
         /\ MembersStored(key, ZRevRange(key, start, stop))
         /\ PairsStored(key, ZRangeWithScore(key, start, stop))
         /\ PairsStored(key, ZRevRangeWithScore(key, start, stop))
    /\ \A min, max \in RangeBounds :
         /\ PairsStored(key, ZScoreRange(key, min, max))
         /\ PairsStored(key, ZRevScoreRange(key, max, min))
    /\ PairsStored(key, ZPopMinStep(records, heap, key).out.node)
    /\ PairsStored(key, ZPopMaxStep(records, heap, key).out.node)

\* C38: ZRank and ZRevRank are right for the member whose identity is the
\* empty string, the identity of the head sentinel: whatever other members
\* the key holds and whatever the heights of the nodes, ZRank(key, "") is
\* the number of members strictly smaller than (score, "") in (score,
\* member) order, and ZRevRank(key, "") the number of members above it.
C38_RankOfEmptyMember ==
  \A key \in DOMAIN records :
    "" \in DOMAIN records[key].records =>
      /\ ZRank(key, "") = Cardinality(Smaller(key, ""))
      /\ ZRevRank(key, "") = ZCard(key) - 1 - Cardinality(Smaller(key, ""))

\* C39: the results do not depend on the random node heights: two sets
\* driven by the same sequence of calls (the same members, the empty string
\* among them, and scores) with different heights drawn by getRandomLevel
\* give the same result in every ZScore, ZCard, ZRank, ZRevRank, ZRange,
\* ZRevRange, ZScoreRange, ZRevScoreRange, ZRetrieveByRank and ZPopMin and
\* ZPopMax call.
C39_ResultsIndependentOfHeights ==
  /\ ZCard("k1") = ZCard("k2")
  /\ \A m \in Members :
       /\ ZScore("k1", m) = ZScore("k2", m)
       /\ ZRank("k1", m) = ZRank("k2", m)
       /\ ZRevRank("k1", m) = ZRevRank("k2", m)
  /\ \A start, stop \in IdxArgs :
       /\ ZRange("k1", start, stop) = ZRange("k2", start, stop)
       /\ ZRevRange("k1", start, stop) = ZRevRange("k2", start, stop)
  /\ \A min, max \in RangeBounds :
       /\ ZScoreRange("k1", min, max) = ZScoreRange("k2", min, max)
       /\ ZRevScoreRange("k1", max, min) = ZRevScoreRange("k2", max, min)
  /\ \A rank \in IdxArgs :
       /\ ZRetrieveByRank("k1", rank) = ZRetrieveByRank("k2", rank)
       /\ ZRevRetrieveByRank("k1", rank) = ZRevRetrieveByRank("k2", rank)
  /\ ZPopMinStep(records, heap, "k1").out = ZPopMinStep(records, heap, "k2").out
  /\ ZPopMaxStep(records, heap, "k1").out = ZPopMaxStep(records, heap, "k2").out

\* C40: the read calls are pure: ZScore, ZCard, ZRank, ZRevRank, ZKeyExists,
\* ZKeys, ZRange, ZRangeWithScore, ZRevRange, ZRevRangeWithScore,
\* ZScoreRange, ZRevScoreRange, ZRetrieveByRank and ZRevRetrieveByRank leave
\* the whole store as it was (the keys, the directories, the links, spans,
\* length, level and tail), and never create an entry for an absent key:
\* after each of them the store is the store the call was made on, and its
\* keys are the keys ZAdd was called on since their last ZClear.
C40_ReadsArePure ==
  ret.op \in ReadOps =>
    /\ records = ret.out.records
    /\ heap = ret.out.heap
    /\ DOMAIN records = DOMAIN added
    /\ \A key \in DOMAIN records : DOMAIN records[key].records = DOMAIN added[key]

\* ZRevRangeWithScore was called on a set of two nodes, the level of the
\* list being the greatest height, and returned both
C40_Witness ==
  /\ ret.op = "ZRevRangeWithScore"
  /\ "k1" \in DOMAIN records
  /\ records["k1"].zsl.level = MaxHeight
  /\ ret.out.result = <<"a", MaxScore, "", 0>>
  /\ ret.out.records = records

====
